---- MODULE Spec2Model ----
(***************************************************************************)
(* MorphiNet: the mesh subdivision core (Subdivision, GSNLayer, GSN) of    *)
(* src/model/networks.py and the epoch schedule of src/main.py.            *)
(*                                                                         *)
(* Indices are 0-based as in the source; sequences are 1-based, so the     *)
(* element with index i of a tensor t is t[i + 1].                         *)
(***************************************************************************)
EXTENDS Integers, Sequences, FiniteSets, TLC

VARIABLES
    tmpl,               \* name of the template mesh handed to Subdivision
    num_layers,         \* Subdivision's num_layers / the length of GSN.gcn_layers
    supplied,           \* TRUE when the caller passes allow_subdiv_faces
    allow_subdiv_faces, \* the list of masks (the default, or the part of the caller's list read so far)
    sub,                \* the Subdivision object under construction
    sub2,               \* a second Subdivision built on the same topology, other vertex positions
    gsn,                \* a call of GSN.forward
    layer,              \* a call of GSNLayer.forward
    fn,                 \* a call of Subdivision.subdivide_faces_fn
    train               \* a call of train() in main.py

vars == <<tmpl, num_layers, supplied, allow_subdiv_faces, sub, sub2, gsn, layer, fn, train>>

-----------------------------------------------------------------------------
(* Bounds of the exploration *)

MaxLayers == 3          \* num_layers ranges over 1..MaxLayers
MaskWindow == 2         \* a supplied mask selects any subset of the first MaskWindow faces, or all faces
MaxMeshFaces == 64      \* a level is only explored on meshes of at most this many faces
MaxBatch == 2           \* a batch holds 1..MaxBatch meshes
NormScale == 8          \* the fixed-point unit of the normalisation factors
MaxLayerVerts == 3      \* GSNLayer is called on 1..MaxLayerVerts vertices
MaxLayerEdges == 3      \* and on at most MaxLayerEdges directed edges
MaxEpochs == 3          \* max_epochs, pretrain_epochs and delay_epochs range over 0..MaxEpochs
MaxInterval == 2        \* val_interval ranges over 0..MaxInterval

-----------------------------------------------------------------------------
(* Small helpers *)

\* Python's None; every mask and every label array of the model is non-empty
None == <<>>

Min2(a, b) == IF a < b THEN a ELSE b
Max2(a, b) == IF a < b THEN b ELSE a

RECURSIVE Pow2(_)
Pow2(n) == IF n = 0 THEN 1 ELSE 2 * Pow2(n - 1)

RECURSIVE Pow4(_)
Pow4(n) == IF n = 0 THEN 1 ELSE 4 * Pow4(n - 1)

\* the positions (1-based) a boolean mask selects, in order
Selected(mask) ==
    LET Flag(i) == mask[i]
    IN  SelectSeq([i \in 1..Len(mask) |-> i], Flag)

\* t[mask] / torch boolean indexing: the elements whose flag is set, in order
BoolIndex(t, mask) ==
    LET sel == Selected(mask)
    IN  [i \in 1..Len(sel) |-> t[sel[i]]]

\* ~mask
Not(mask) == [i \in 1..Len(mask) |-> ~mask[i]]

\* a tensor given by its entries, as a sequence held in memory
Tensor(t) == t \o <<>>

\* t.repeat_interleave(4): every entry four times in a row
RepeatInterleave4(t) == [i \in 1..(4 * Len(t)) |-> t[((i - 1) \div 4) + 1]]

\* t.tile([4])
Tile4(t) == t \o t \o t \o t

-----------------------------------------------------------------------------
(* pytorch3d Meshes: packed vertices, packed faces, and the derived edges, *)
(* which a Meshes object computes on first use and then keeps              *)

Meshes(verts, faces) ==
    [verts |-> verts, faces |-> faces,
     edges_packed |-> None, faces_packed_to_edges_packed |-> None]

VertsPacked(mesh) == mesh.verts
FacesPacked(mesh) == mesh.faces

\* the three edges of a face in the order pytorch3d lists them: e12, e20, e01,
\* so edge k of a face is the edge opposite its vertex k
FaceEdge(f, k) ==
    IF k = 0 THEN <<f[2], f[3]>>
    ELSE IF k = 1 THEN <<f[3], f[1]>>
    ELSE <<f[1], f[2]>>

\* an edge sorted in increasing vertex order and hashed as V * v0 + v1
EdgeHash(V, e) == V * Min2(e[1], e[2]) + Max2(e[1], e[2])

\* the values of S, all within lo..hi, in increasing order
RECURSIVE SortedRange(_, _, _)
SortedRange(S, lo, hi) ==
    IF S = {} THEN <<>>
    ELSE IF lo = hi THEN <<lo>>
    ELSE LET mid == (lo + hi) \div 2
         IN  SortedRange({x \in S : x <= mid}, lo, mid)
             \o SortedRange({x \in S : x > mid}, mid + 1, hi)

\* torch.unique: the sorted distinct values of a set of naturals
SortedUnique(S) ==
    IF S = {} THEN <<>>
    ELSE SortedRange(S, 0, CHOOSE x \in S : \A y \in S : y <= x)

\* torch.unique(return_inverse=True): the 0-based position of h in the sorted values u
RECURSIVE InverseIdx(_, _, _, _)
InverseIdx(u, h, lo, hi) ==
    IF lo >= hi THEN lo - 1
    ELSE LET mid == (lo + hi) \div 2
         IN  IF u[mid] < h THEN InverseIdx(u, h, mid + 1, hi)
             ELSE InverseIdx(u, h, lo, mid)

\* Meshes._compute_edges_packed: fills edges_packed and faces_packed_to_edges_packed
ComputeEdgesPacked(mesh) ==
    IF mesh.faces_packed_to_edges_packed # None THEN mesh
    ELSE
    LET V == Len(mesh.verts)
        F == Len(mesh.faces)
        hashes == {EdgeHash(V, FaceEdge(mesh.faces[i], k)) : i \in 1..F, k \in 0..2}
        u == SortedUnique(hashes)
        n == Len(u)
    IN  [mesh EXCEPT
         !.edges_packed = [i \in 1..n |-> <<u[i] \div V, u[i] % V>>],
         !.faces_packed_to_edges_packed =
            [i \in 1..F |->
                <<InverseIdx(u, EdgeHash(V, FaceEdge(mesh.faces[i], 0)), 1, n),
                  InverseIdx(u, EdgeHash(V, FaceEdge(mesh.faces[i], 1)), 1, n),
                  InverseIdx(u, EdgeHash(V, FaceEdge(mesh.faces[i], 2)), 1, n)>>]]

EdgesPacked(mesh) == ComputeEdgesPacked(mesh).edges_packed
FacesPackedToEdgesPacked(mesh) == ComputeEdgesPacked(mesh).faces_packed_to_edges_packed

\* verts[edges].mean(dim=1): the midpoint of every edge, in edge order
Mean2(a, b) == <<(a[1] + b[1]) \div 2, (a[2] + b[2]) \div 2, (a[3] + b[3]) \div 2>>

\* a slip: the midpoints are stored in the opposite order of the edges
EdgeMidpoints_Reversed(verts, edges) ==
    [e \in 1..Len(edges) |->
        Mean2(verts[edges[Len(edges) - e + 1][1] + 1], verts[edges[Len(edges) - e + 1][2] + 1])]

EdgeMidpoints(verts, edges) ==
    [e \in 1..Len(edges) |-> Mean2(verts[edges[e][1] + 1], verts[edges[e][2] + 1])]

-----------------------------------------------------------------------------
(* Subdivision: the precomputed face index of every level *)

\* the four child faces of the selected faces, with the pass-through faces in front
ChildFaces(mesh, allow, V, centre, keep) ==
    LET all_f2e == FacesPackedToEdgesPacked(mesh)
        offset_f2e == [i \in 1..Len(all_f2e) |->
                          <<V + all_f2e[i][1], V + all_f2e[i][2], V + all_f2e[i][3]>>]
        faces_packed == IF allow # None THEN BoolIndex(FacesPacked(mesh), allow)
                        ELSE FacesPacked(mesh)
        f2e == IF allow # None THEN BoolIndex(offset_f2e, allow) ELSE offset_f2e
        n == Len(faces_packed)
        f0 == [i \in 1..n |-> <<faces_packed[i][1], f2e[i][3], f2e[i][2]>>]
        f1 == [i \in 1..n |-> <<faces_packed[i][2], f2e[i][1], f2e[i][3]>>]
        f2 == [i \in 1..n |-> <<faces_packed[i][3], f2e[i][2], f2e[i][1]>>]
        f3 == IF centre = "kept" THEN f2e
              ELSE IF centre = "flipped"
              THEN [i \in 1..n |-> <<f2e[i][3], f2e[i][2], f2e[i][1]>>]
              ELSE <<>>
    IN  (IF allow # None /\ keep THEN BoolIndex(FacesPacked(mesh), Not(allow)) ELSE <<>>)
        \o f0 \o f1 \o f2 \o f3

\* a slip: the centre faces are left out
SubdivideFacesFn_NoCentre(mesh, allow) ==
    ChildFaces(mesh, allow, Len(VertsPacked(mesh)), "dropped", TRUE)

\* a slip: the centre face lists its midpoints in the opposite order
SubdivideFacesFn_Flipped(mesh, allow) ==
    ChildFaces(mesh, allow, Len(VertsPacked(mesh)), "flipped", TRUE)

\* a slip: the faces the mask leaves out are not carried over
SubdivideFacesFn_NoPassThrough(mesh, allow) ==
    ChildFaces(mesh, allow, Len(VertsPacked(mesh)), "kept", FALSE)

\* a slip: midpoints are numbered after the distinct vertex positions
SubdivideFacesFn_Welded(mesh, allow) ==
    ChildFaces(mesh, allow,
               Cardinality({VertsPacked(mesh)[v] : v \in 1..Len(VertsPacked(mesh))}),
               "kept", TRUE)

\* a slip: the faces the mask leaves out are put behind the child faces
SubdivideFacesFn_PassThroughLast(mesh, allow) ==
    ChildFaces(mesh, allow, Len(VertsPacked(mesh)), "kept", FALSE)
    \o (IF allow # None THEN BoolIndex(FacesPacked(mesh), Not(allow)) ELSE <<>>)

\* Subdivision.subdivide_faces_fn
SubdivideFacesFn(mesh, allow) ==
    LET V == Len(VertsPacked(mesh))
        all_f2e == FacesPackedToEdgesPacked(mesh)
        offset_f2e == [i \in 1..Len(all_f2e) |->
                          <<V + all_f2e[i][1], V + all_f2e[i][2], V + all_f2e[i][3]>>]
        faces_packed == IF allow # None THEN BoolIndex(FacesPacked(mesh), allow)
                        ELSE FacesPacked(mesh)
        f2e == IF allow # None THEN BoolIndex(offset_f2e, allow) ELSE offset_f2e
        n == Len(faces_packed)
        f0 == [i \in 1..n |-> <<faces_packed[i][1], f2e[i][3], f2e[i][2]>>]
        f1 == [i \in 1..n |-> <<faces_packed[i][2], f2e[i][1], f2e[i][3]>>]
        f2 == [i \in 1..n |-> <<faces_packed[i][3], f2e[i][2], f2e[i][1]>>]
        f3 == f2e
        subdivided_faces_packed == f0 \o f1 \o f2 \o f3
    IN  IF allow # None
        THEN BoolIndex(FacesPacked(mesh), Not(allow)) \o subdivided_faces_packed
        ELSE subdivided_faces_packed

\* the default of the allow_subdiv_faces parameter
DefaultAllow == <<None, None>>

\* the object at the start of Subdivision.__init__
NewSubdivision(mesh, mesh_label) ==
    [mesh |-> mesh, l |-> 0, faces_levels |-> <<>>, labels_levels |-> <<>>,
     mesh_label |-> mesh_label, inputs |-> <<>>, pc |-> "loop"]

\* one iteration of the loop of Subdivision.__init__ with allow_subdiv_faces[l] = allow
LevelBody(s, allow, L) ==
    LET mesh == ComputeEdgesPacked(s.mesh)     \* the first use of the edges fills them in
        new_faces == SubdivideFacesFn(mesh, allow)
        verts == VertsPacked(mesh)
        edges == EdgesPacked(mesh)
        new_verts == verts \o EdgeMidpoints(verts, edges)
        label == IF s.mesh_label # None THEN Tile4(s.mesh_label) ELSE None
    IN  [mesh |-> Meshes(new_verts, new_faces),
         l |-> s.l + 1,
         faces_levels |-> Append(s.faces_levels, new_faces),
         labels_levels |-> Append(s.labels_levels, label),
         mesh_label |-> label,
         inputs |-> Append(s.inputs, mesh),
         pc |-> IF s.l + 1 = L THEN "done" ELSE "loop"]

\* allow_subdiv_faces[l] on a list too short for l raises IndexError
RaiseIndexError(s) == [s EXCEPT !.pc = "IndexError"]

\* the whole constructor, given the list of masks
RECURSIVE RunSubdivision(_, _, _)
RunSubdivision(s, allow_list, L) ==
    IF s.pc # "loop" THEN s
    ELSE IF s.l >= Len(allow_list) THEN RaiseIndexError(s)
    ELSE RunSubdivision(LevelBody(s, allow_list[s.l + 1], L), allow_list, L)

-----------------------------------------------------------------------------------------------------------------------------------------------------
(* GSNLayer: one round of message passing.  A real number r is held as the *)
(* integer r * NormScale for the factors deg^-1/2, rounded down, and the   *)
(* aggregated offset is rounded back to the unit of the vertex positions.  *)

VAdd(a, b) == <<a[1] + b[1], a[2] + b[2], a[3] + b[3]>>
VSub(a, b) == <<a[1] - b[1], a[2] - b[2], a[3] - b[3]>>
VScale(c, a) == <<c * a[1], c * a[2], c * a[3]>>
VDiv(a, c) == <<a[1] \div c, a[2] \div c, a[3] \div c>>
Zero3 == <<0, 0, 0>>

\* float("inf"), which no finite factor equals
Inf == -1

ISqrt(n) == CHOOSE r \in 0..n : r * r <= n /\ n < (r + 1) * (r + 1)

\* self.lin, a bias-free network: the learned weights w scale the feature
Lin(w, x) == [i \in 1..Len(x) |-> VScale(w, x[i])]

\* torch_geometric.utils.degree(index, N)
Degree(index, N) ==
    [v \in 1..N |-> Cardinality({e \in 1..Len(index) : index[e] = v - 1})]

\* deg.pow(-0.5)
PowMinusHalf(d) == IF d = 0 THEN Inf ELSE ISqrt((NormScale * NormScale) \div d)

\* deg_inv_sqrt[deg_inv_sqrt == float("inf")] = 0
ReplaceInf(t) == [v \in 1..Len(t) |-> IF t[v] = Inf THEN 0 ELSE t[v]]

\* deg_inv_sqrt[row] * deg_inv_sqrt[col], infinite if a factor is
Norm(deg_inv_sqrt, row, col) ==
    [e \in 1..Len(row) |->
        IF deg_inv_sqrt[row[e] + 1] = Inf \/ deg_inv_sqrt[col[e] + 1] = Inf THEN Inf
        ELSE deg_inv_sqrt[row[e] + 1] * deg_inv_sqrt[col[e] + 1]]

\* GSNLayer.message
Message(x_j, x_i, norm) == VScale(norm, VSub(x_j, x_i))

\* the sum of the messages of the edges lo..hi whose target (edge_index[1]) is
\* vertex i
RECURSIVE SumMessages(_, _, _, _, _, _, _)
SumMessages(x, row, col, norm, i, lo, hi) ==
    IF lo > hi THEN Zero3
    ELSE IF lo = hi
    THEN (IF col[lo] = i THEN Message(x[row[lo] + 1], x[col[lo] + 1], norm[lo]) ELSE Zero3)
    ELSE LET mid == (lo + hi) \div 2
         IN  VAdd(SumMessages(x, row, col, norm, i, lo, mid),
                  SumMessages(x, row, col, norm, i, mid + 1, hi))

\* a slip: the sum starts from the feature of the vertex instead of zero
Aggregate_FromFeature(x, row, col, norm, i) ==
    VAdd(VScale(NormScale * NormScale, x[i + 1]),
         SumMessages(x, row, col, norm, i, 1, Len(row)))

\* the "add" aggregation of MessagePassing.propagate for vertex i: a sum from zero
Aggregate(x, row, col, norm, i) ==
    VAdd(Zero3, SumMessages(x, row, col, norm, i, 1, Len(row)))

Propagate(x, row, col, norm) ==
    [v \in 1..Len(x) |-> Aggregate(x, row, col, norm, v - 1)]

\* an index outside the vertex tensor makes the gather or the scatter raise
IndexInRange(index, N) == \A e \in 1..Len(index) : 0 <= index[e] /\ index[e] < N

\* GSNLayer.forward; edge_index = <<row, col>>
GSNLayerForward(x_in, edge_index, w) ==
    LET x == Tensor(Lin(w, x_in))
        row == edge_index[1]
        col == edge_index[2]
        N == Len(x)
    IN  IF ~(IndexInRange(row, N) /\ IndexInRange(col, N))
        THEN [ok |-> FALSE, deg_inv_sqrt |-> <<>>, norm |-> <<>>, out |-> <<>>]
        ELSE LET deg == Tensor(Degree(col, N))
                 deg_inv_sqrt == Tensor(ReplaceInf([v \in 1..N |-> PowMinusHalf(deg[v])]))
                 norm == Tensor(Norm(deg_inv_sqrt, row, col))
                 agg == Propagate(x, row, col, norm)
             IN  [ok |-> TRUE, deg_inv_sqrt |-> deg_inv_sqrt, norm |-> norm,
                  out |-> [v \in 1..N |-> VDiv(agg[v], NormScale * NormScale)]]

-----------------------------------------------------------------------------
(* GSN.forward on a batch whose elements share one face array *)

\* Meshes.edges_packed().t(): the first and the second vertex of every edge
Transpose(edges) ==
    <<[e \in 1..Len(edges) |-> edges[e][1]], [e \in 1..Len(edges) |-> edges[e][2]]>>

\* Meshes.offset_verts
OffsetVerts(verts, offsets) == [v \in 1..Len(verts) |-> VAdd(verts[v], offsets[v])]

\* the state of a call at the head of the loop over gcn_layers; verts holds the
\* vertex tensor of every batch element, the mesh of element 0 stands for the
\* topology of every element
NewForward(source, mesh, verts, subdivided_faces, w) ==
    [source |-> source, mesh |-> mesh, verts |-> verts,
     subdivided_faces |-> subdivided_faces, w |-> w,
     l |-> 0, level_outs |-> <<>>, inputs |-> <<>>, offsets |-> <<>>,
     edge_indices |-> <<>>, pc |-> "loop"]

\* a slip: the midpoints are put in front of the vertices
ForwardNewVerts_MidpointsFirst(verts, edges) == EdgeMidpoints(verts, edges) \o verts

\* the vertex tensor of one batch element after a subdividing level: the
\* (moved) vertices, then the midpoint of every edge
ForwardNewVerts(verts, edges) == verts \o EdgeMidpoints(verts, edges)

\* one iteration of the loop of GSN.forward over L layers
ForwardBody(g, L) ==
    LET mesh == ComputeEdgesPacked(g.mesh)
        edge_index == <<Tensor(Transpose(EdgesPacked(mesh))[1]),
                        Tensor(Transpose(EdgesPacked(mesh))[2])>>
        N == Len(g.verts)
        called == [b \in 1..N |-> GSNLayerForward(g.verts[b], edge_index, g.w)]
        passed == Append(g.edge_indices, edge_index)
    IN  IF \E b \in 1..N : ~called[b].ok
        THEN [g EXCEPT !.edge_indices = passed, !.pc = "RuntimeError"]
        ELSE IF Len(g.subdivided_faces) > 0 /\ g.l >= Len(g.subdivided_faces)
        THEN [g EXCEPT !.edge_indices = passed, !.pc = "IndexError"]
        ELSE
        LET offsets == [b \in 1..N |-> called[b].out]
            moved == [b \in 1..N |-> Tensor(OffsetVerts(g.verts[b], offsets[b]))]
            subdivide == Len(g.subdivided_faces) > 0
            new_faces == IF subdivide THEN g.subdivided_faces[g.l + 1] ELSE FacesPacked(mesh)
            new_verts == [b \in 1..N |->
                            IF subdivide
                            THEN ForwardNewVerts(moved[b], EdgesPacked(mesh))
                            ELSE moved[b]]
            out == Meshes(new_verts[1], new_faces)
        IN  [g EXCEPT !.mesh = out,
                      !.verts = new_verts,
                      !.l = g.l + 1,
                      !.level_outs = Append(g.level_outs, [verts |-> new_verts, faces |-> new_faces]),
                      !.inputs = Append(g.inputs, mesh),
                      !.offsets = Append(g.offsets, offsets),
                      !.edge_indices = passed,
                      !.pc = IF g.l + 1 = L THEN "done" ELSE "loop"]

-----
(* Template meshes, with coordinates that keep L levels of midpoints exact *)

Unit == Pow2(MaxLayers)

TemplateNames == {"tetra", "fan", "bipyramid"}

TemplateFaces(name) ==
    IF name = "tetra" THEN << <<0, 2, 1>>, <<0, 1, 3>>, <<1, 2, 3>>, <<0, 3, 2>> >>
    ELSE IF name = "fan" THEN << <<0, 1, 2>>, <<0, 2, 3>>, <<0, 3, 1>> >>
    ELSE << <<0, 2, 3>>, <<0, 3, 4>>, <<0, 4, 5>>, <<0, 5, 6>>, <<0, 6, 2>>,
            <<1, 3, 2>>, <<1, 4, 3>>, <<1, 5, 4>>, <<1, 6, 5>>, <<1, 2, 6>> >>

Scaled(ps) == [i \in 1..Len(ps) |-> <<Unit * ps[i][1], Unit * ps[i][2], Unit * ps[i][3]>>]

\* the tetrahedron and the bipyramid (10 faces) are closed; the fan is open and
\* carries a vertex no face uses
TemplateVerts(name) ==
    IF name = "tetra" THEN Scaled(<< <<0, 0, 0>>, <<1, 0, 0>>, <<0, 1, 0>>, <<0, 0, 1>> >>)
    ELSE IF name = "fan"
    THEN Scaled(<< <<0, 0, 1>>, <<1, 0, 0>>, <<0, 1, 0>>, <<-1, -1, 0>>, <<2, 2, 2>> >>)
    ELSE Scaled(<< <<0, 0, 2>>, <<0, 0, -2>>, <<2, 0, 0>>, <<1, 2, 0>>, <<-2, 1, 0>>,
                   <<-2, -1, 0>>, <<1, -2, 0>> >>)

\* other vertex positions for the same topology (two vertices coincide)
OtherVerts(name) ==
    IF name = "tetra" THEN Scaled(<< <<1, 1, 1>>, <<1, 1, 1>>, <<3, 0, 0>>, <<0, 2, 1>> >>)
    ELSE IF name = "fan"
    THEN Scaled(<< <<1, 1, 1>>, <<1, 1, 1>>, <<3, 0, 0>>, <<0, 2, 1>>, <<5, 5, 5>> >>)
    ELSE Scaled(<< <<1, 1, 1>>, <<1, 1, 1>>, <<3, 0, 0>>, <<0, 2, 1>>, <<5, 5, 5>>,
                   <<6, 0, 1>>, <<0, 7, 0>> >>)

Template(name) == Meshes(TemplateVerts(name), TemplateFaces(name))
OtherGeometry(name) == Meshes(OtherVerts(name), TemplateFaces(name))

\* a per-face label array with pairwise distinct labels, [0, 1, 2, ...]
FaceLabels(F) == [i \in 1..F |-> i - 1]

\* the masks a caller may pass for a mesh of F faces
MaskOf(S, F) == [i \in 1..F |-> (i - 1) \in S]
MaskChoices(F) ==
    {None} \cup {MaskOf(S, F) : S \in SUBSET (0..(Min2(F, MaskWindow) - 1))}
           \cup {MaskOf(0..(F - 1), F)}

-----------------------------------------------------------------------------
(* The builder, one loop iteration per step *)

NotBuilt == [pc |-> "idle"]
NotCalled == [pc |-> "idle"]

InitBuild ==
    /\ tmpl \in TemplateNames
    /\ num_layers \in 1..MaxLayers
    /\ supplied \in BOOLEAN
    /\ supplied => Len(TemplateFaces(tmpl)) * Pow4(num_layers - 1) <= MaxMeshFaces
    /\ allow_subdiv_faces = IF supplied THEN <<>> ELSE DefaultAllow
    /\ \E labelled \in BOOLEAN :
          sub = NewSubdivision(Template(tmpl),
                    IF labelled THEN FaceLabels(Len(TemplateFaces(tmpl))) ELSE None)
    /\ sub2 = NotBuilt
    /\ gsn = NotCalled /\ layer = NotCalled /\ fn = NotCalled /\ train = NotCalled

\* a level whose mask the list holds
BuildLevel ==
    /\ sub.pc = "loop"
    /\ sub.l < Len(allow_subdiv_faces)
    /\ sub' = LevelBody(sub, allow_subdiv_faces[sub.l + 1], num_layers)
    /\ UNCHANGED <<tmpl, num_layers, supplied, allow_subdiv_faces, sub2, gsn, layer, fn, train>>

\* a level whose mask is the next entry of the caller's list
BuildLevelSupplied ==
    /\ sub.pc = "loop"
    /\ sub.l >= Len(allow_subdiv_faces)
    /\ supplied
    /\ \E allow \in MaskChoices(Len(sub.mesh.faces)) :
          /\ allow_subdiv_faces' = Append(allow_subdiv_faces, allow)
          /\ sub' = LevelBody(sub, allow, num_layers)
    /\ UNCHANGED <<tmpl, num_layers, supplied, sub2, gsn, layer, fn, train>>

\* a level past the end of the default list
BuildIndexError ==
    /\ sub.pc = "loop"
    /\ sub.l >= Len(allow_subdiv_faces)
    /\ ~supplied
    /\ sub' = RaiseIndexError(sub)
    /\ UNCHANGED <<tmpl, num_layers, supplied, allow_subdiv_faces, sub2, gsn, layer, fn, train>>

\* the constructor called again on the same topology, masks and labels
Rebuild ==
    /\ sub.pc \in {"done", "IndexError"}
    /\ sub2 = NotBuilt
    /\ sub2' = RunSubdivision(
                  NewSubdivision(OtherGeometry(tmpl),
                      IF sub.mesh_label # None THEN FaceLabels(Len(TemplateFaces(tmpl)))
                      ELSE None),
                  allow_subdiv_faces, num_layers)
    /\ UNCHANGED <<tmpl, num_layers, supplied, allow_subdiv_faces, sub, gsn, layer, fn, train>>

NextBuild == BuildLevel \/ BuildLevelSupplied \/ BuildIndexError \/ Rebuild

SpecBuild == InitBuild /\ [][NextBuild]_vars

-----------------------------------------------------------------------------
(* Subdivision.subdivide_faces_fn alone, on every mask of a mesh *)

InitFn ==
    /\ tmpl \in TemplateNames
    /\ num_layers = 1 /\ supplied = TRUE /\ allow_subdiv_faces = <<>>
    /\ sub = NotBuilt /\ sub2 = NotBuilt
    /\ gsn = NotCalled /\ layer = NotCalled /\ train = NotCalled
    /\ \E allow \in {None} \cup {MaskOf(S, Len(TemplateFaces(tmpl))) :
                                  S \in SUBSET (0..(Len(TemplateFaces(tmpl)) - 1))} :
          fn = [mesh |-> Template(tmpl), allow |-> allow, out |-> <<>>, pc |-> "call"]

CallSubdivideFacesFn ==
    /\ fn.pc = "call"
    /\ fn' = [fn EXCEPT !.out = SubdivideFacesFn(fn.mesh, fn.allow), !.pc = "returned"]
    /\ UNCHANGED <<tmpl, num_layers, supplied, allow_subdiv_faces, sub, sub2, gsn, layer, train>>

NextFn == CallSubdivideFacesFn

SpecFn == InitFn /\ [][NextFn]_vars

-----------------------------------------------------------------------------
(* GSN.forward after the builder has run *)

\* the learned weights of a layer
Weights == {0, 1}

\* the vertex tensors of a batch of N meshes with the topology of a template
BatchVerts(name, N) ==
    [b \in 1..N |->
        [v \in 1..Len(TemplateVerts(name)) |->
            VAdd(TemplateVerts(name)[v], <<(b - 1) * Unit, 0, 2 * (b - 1) * Unit>>)]]

InitGSN ==
    /\ tmpl \in TemplateNames
    /\ num_layers \in 1..MaxLayers
    /\ supplied \in BOOLEAN
    /\ supplied => Len(TemplateFaces(tmpl)) * Pow4(num_layers - 1) <= MaxMeshFaces
    /\ \E allow \in MaskChoices(Len(TemplateFaces(tmpl))) :
          allow_subdiv_faces =
              IF supplied THEN <<allow>> \o [i \in 1..(num_layers - 1) |-> None]
              ELSE DefaultAllow
    /\ sub = NewSubdivision(Template(tmpl), None)
    /\ sub2 = NotBuilt
    /\ gsn = NotCalled /\ layer = NotCalled /\ fn = NotCalled /\ train = NotCalled

\* the pipeline builds the face index of the template once
Precompute ==
    /\ sub.pc = "loop"
    /\ sub' = RunSubdivision(sub, allow_subdiv_faces, num_layers)
    /\ UNCHANGED <<tmpl, num_layers, supplied, allow_subdiv_faces, sub2, gsn, layer, fn, train>>

\* GSN.forward is called with a batch and the first n precomputed levels
CallForward ==
    /\ sub.pc = "done"
    /\ gsn.pc = "idle"
    /\ \E source \in TemplateNames, N \in 1..MaxBatch, w \in Weights,
          n \in 0..Len(sub.faces_levels) :
          gsn' = NewForward(source, Template(source), BatchVerts(source, N),
                            SubSeq(sub.faces_levels, 1, n), w)
    /\ UNCHANGED <<tmpl, num_layers, supplied, allow_subdiv_faces, sub, sub2, layer, fn, train>>

ForwardLevel ==
    /\ gsn.pc = "loop"
    /\ gsn' = ForwardBody(gsn, num_layers)
    /\ UNCHANGED <<tmpl, num_layers, supplied, allow_subdiv_faces, sub, sub2, layer, fn, train>>

NextGSN == Precompute \/ CallForward \/ ForwardLevel

SpecGSN == InitGSN /\ [][NextGSN]_vars

-----------------------------------------------------------------------------
(* GSNLayer.forward alone, on every small directed graph *)

\* a set of directed edges <<source, target>> as the two rows of an edge_index
EdgeIndex(S, N) ==
    LET u == SortedUnique({N * p[1] + p[2] : p \in S})
    IN  <<Tensor([e \in 1..Len(u) |-> u[e] \div N]), Tensor([e \in 1..Len(u) |-> u[e] % N])>>

\* pairwise distinct, non-zero vertex features
LayerFeatures(N) == [v \in 1..N |-> <<v, 2 * v * v, 3 - v>>]

InitLayer ==
    /\ tmpl = "tetra" /\ num_layers = 1 /\ supplied = TRUE /\ allow_subdiv_faces = <<>>
    /\ sub = NotBuilt /\ sub2 = NotBuilt
    /\ gsn = NotCalled /\ fn = NotCalled /\ train = NotCalled
    /\ \E N \in 1..MaxLayerVerts, w \in Weights :
       \E S \in SUBSET ((0..(N - 1)) \X (0..(N - 1))) :
          /\ Cardinality(S) <= MaxLayerEdges
          /\ layer = [x |-> LayerFeatures(N), edge_index |-> EdgeIndex(S, N), w |-> w,
                      result |-> <<>>, pc |-> "call"]

CallLayer ==
    /\ layer.pc = "call"
    /\ layer' = [layer EXCEPT !.result = GSNLayerForward(layer.x, layer.edge_index, layer.w),
                              !.pc = "returned"]
    /\ UNCHANGED <<tmpl, num_layers, supplied, allow_subdiv_faces, sub, sub2, gsn, fn, train>>

NextLayer == CallLayer

SpecLayer == InitLayer /\ [][NextLayer]_vars

-----------------------------------------------------------------------------
(* train() of main.py: which pipeline method is called in which epoch *)

Call(name, epoch) == <<name, epoch>>

\* one iteration of the loop of the save_on == "cap" branch
CapBody(t) ==
    LET epoch == t.epoch
        c1 == <<Call("train_iter_pretrain", epoch)>>
        c2 == IF epoch >= t.pretrain_epochs
              THEN c1 \o <<Call("train_iter_train", epoch)>>
                      \o (IF epoch - t.pretrain_epochs = t.reduce_count_down
                          THEN <<Call("update_precomputed_faces", epoch)>> ELSE <<>>)
              ELSE c1
    IN  IF epoch >= t.pretrain_epochs /\ t.val_interval = 0
        THEN [t EXCEPT !.calls = t.calls \o c2, !.pc = "ZeroDivisionError"]
        ELSE IF epoch >= t.pretrain_epochs /\ epoch % t.val_interval = 0
        THEN [t EXCEPT !.calls = t.calls \o c2 \o <<Call("fine_tune", epoch), Call("valid", epoch)>>,
                       !.epoch = epoch + 1]
        ELSE [t EXCEPT !.calls = t.calls \o c2, !.epoch = epoch + 1]

\* one iteration of the loop of the other branch
ElseBody(t) ==
    LET epoch == t.epoch
        c1 == <<Call("train_iter_pretrain", epoch)>>
        c2 == IF epoch >= t.pretrain_epochs
              THEN c1 \o <<Call("train_iter_train", epoch)>>
                      \o (IF epoch - t.pretrain_epochs = t.reduce_count_down
                          THEN <<Call("update_precomputed_faces", epoch)>> ELSE <<>>)
              ELSE c1
    IN  IF epoch >= t.delay_epochs /\ t.val_interval = 0
        THEN [t EXCEPT !.calls = t.calls \o c2, !.pc = "ZeroDivisionError"]
        ELSE IF epoch >= t.delay_epochs /\ (epoch - t.delay_epochs) % t.val_interval = 0
        THEN [t EXCEPT !.calls = t.calls \o c2 \o <<Call("valid", epoch)>>,
                       !.epoch = epoch + 1]
        ELSE [t EXCEPT !.calls = t.calls \o c2, !.epoch = epoch + 1]

InitTrain ==
    /\ tmpl = "tetra" /\ num_layers = 1 /\ supplied = TRUE /\ allow_subdiv_faces = <<>>
    /\ sub = NotBuilt /\ sub2 = NotBuilt
    /\ gsn = NotCalled /\ fn = NotCalled /\ layer = NotCalled
    /\ \E save_on \in {"cap", "sct"}, max_epochs \in 0..MaxEpochs,
          pretrain_epochs \in 0..MaxEpochs, delay_epochs \in 0..MaxEpochs,
          val_interval \in 0..MaxInterval, reduce_count_down \in {-1, 0} :
          train = [save_on |-> save_on, max_epochs |-> max_epochs,
                   pretrain_epochs |-> pretrain_epochs, delay_epochs |-> delay_epochs,
                   val_interval |-> val_interval, reduce_count_down |-> reduce_count_down,
                   epoch |-> 0, calls |-> <<>>, pc |-> "loop"]

EpochCap ==
    /\ train.pc = "loop"
    /\ train.save_on = "cap"
    /\ train.epoch < train.max_epochs
    /\ train' = CapBody(train)
    /\ UNCHANGED <<tmpl, num_layers, supplied, allow_subdiv_faces, sub, sub2, gsn, layer, fn>>

EpochElse ==
    /\ train.pc = "loop"
    /\ train.save_on # "cap"
    /\ train.epoch < train.max_epochs
    /\ train' = ElseBody(train)
    /\ UNCHANGED <<tmpl, num_layers, supplied, allow_subdiv_faces, sub, sub2, gsn, layer, fn>>

TrainReturn ==
    /\ train.pc = "loop"
    /\ train.epoch >= train.max_epochs
    /\ train' = [train EXCEPT !.pc = "done"]
    /\ UNCHANGED <<tmpl, num_layers, supplied, allow_subdiv_faces, sub, sub2, gsn, layer, fn>>

NextTrain == EpochCap \/ EpochElse \/ TrainReturn

SpecTrain == InitTrain /\ [][NextTrain]_vars

-----------------------------------------------------------------------------
(* Properties *)

\* the undirected edges of a face array, each a set of two vertex indices
UndirectedEdges(faces) ==
    {{FaceEdge(faces[i], k)[1], FaceEdge(faces[i], k)[2]} : i \in 1..Len(faces), k \in 0..2}

FaceVertices(f) == {f[1], f[2], f[3]}

\* every undirected edge lies on exactly two faces
IsClosed(faces) ==
    \A e \in UndirectedEdges(faces) :
        Cardinality({i \in 1..Len(faces) : e \subseteq FaceVertices(faces[i])}) = 2

AllZero(offsets) ==
    \A k \in 1..Len(offsets) : \A b \in 1..Len(offsets[k]) :
        \A v \in 1..Len(offsets[k][b]) : offsets[k][b][v] = Zero3

\* a one-level GSN.forward call on the template's own topology with zero offsets,
\* the face index built without a mask
OneLevelZeroOffsetCall ==
    /\ num_layers = 1
    /\ allow_subdiv_faces[1] = None
    /\ gsn.pc = "done"
    /\ gsn.source = tmpl
    /\ IsClosed(TemplateFaces(tmpl))
    /\ gsn.subdivided_faces = sub.faces_levels
    /\ AllZero(gsn.offsets)

\* C1: one subdivision level without a mask turns a closed mesh of V vertices,
\* F faces and E edges into 4F faces (in the builder's face index and in the
\* mesh GSN.forward returns) and V + E vertices
C1_OneLevelCounts ==
    OneLevelZeroOffsetCall =>
        LET V == Len(TemplateVerts(tmpl))
            F == Len(TemplateFaces(tmpl))
            E == Cardinality(UndirectedEdges(TemplateFaces(tmpl)))
        IN  /\ Len(sub.faces_levels[1]) = 4 * F
            /\ Len(gsn.level_outs) = 1
            /\ Len(gsn.level_outs[1].faces) = 4 * F
            /\ \A b \in 1..Len(gsn.level_outs[1].verts) :
                  Len(gsn.level_outs[1].verts[b]) = V + E

C1_Witness == OneLevelZeroOffsetCall /\ Len(gsn.verts) = 2

Cross(a, b) ==
    <<a[2] * b[3] - a[3] * b[2], a[3] * b[1] - a[1] * b[3], a[1] * b[2] - a[2] * b[1]>>
Dot(a, b) == a[1] * b[1] + a[2] * b[2] + a[3] * b[3]

\* the normal of a face by the right-hand rule over its vertex order
Normal(verts, f) ==
    Cross(VSub(verts[f[2] + 1], verts[f[1] + 1]), VSub(verts[f[3] + 1], verts[f[1] + 1]))

SameWinding(n1, n2) == Dot(n1, n2) > 0 /\ Cross(n1, n2) = Zero3

\* the parent faces (1-based) of a level and the number of faces carried over
ParentsOf(allow, F) ==
    IF allow = None THEN [i \in 1..F |-> i]
    ELSE LET Flag(i) == allow[i] IN SelectSeq([i \in 1..F |-> i], Flag)
PassThroughCount(allow, F) == IF allow = None THEN 0 ELSE F - Len(ParentsOf(allow, F))

\* the mesh a level of the builder produced
LevelOutput(s, k) == IF k < Len(s.inputs) THEN s.inputs[k + 1] ELSE s.mesh

\* C2: at every level every child face winds like its parent face
C2_OrientationPreserved ==
    \A k \in 1..Len(sub.faces_levels) :
        LET in == sub.inputs[k]
            out == LevelOutput(sub, k)
            parents == ParentsOf(allow_subdiv_faces[k], Len(in.faces))
            p == PassThroughCount(allow_subdiv_faces[k], Len(in.faces))
            n == Len(parents)
        IN  \A j \in 1..(Len(sub.faces_levels[k]) - p) :
                SameWinding(Normal(out.verts, sub.faces_levels[k][p + j]),
                            Normal(in.verts, in.faces[parents[((j - 1) % n) + 1]]))

\* three levels built, the last one with a mask that selects some faces only
C2_Witness ==
    /\ sub.pc = "done"
    /\ Len(sub.faces_levels) >= 3
    /\ allow_subdiv_faces[3] # None
    /\ PassThroughCount(allow_subdiv_faces[3], Len(sub.inputs[3].faces)) > 0
    /\ Len(ParentsOf(allow_subdiv_faces[3], Len(sub.inputs[3].faces))) > 0

\* a tracked label array and a first level without a mask
LabelledFirstLevel ==
    /\ sub.pc # "idle"
    /\ Len(sub.labels_levels) >= 1
    /\ sub.labels_levels[1] # None
    /\ allow_subdiv_faces[1] = None

\* C3 as stated: after one level without a mask every label stands four times
\* in a row, in parent order ([0,1,2] gives [0,0,0,0,1,1,1,1,2,2,2,2])
C3_Original_ConsecutiveLabels ==
    LabelledFirstLevel =>
        sub.labels_levels[1] = RepeatInterleave4(FaceLabels(Len(TemplateFaces(tmpl))))

\* C3 amended: after one level without a mask the label array has length 4F and
\* every label stands four times, at i, F + i, 2F + i and 3F + i, the order of
\* the child faces ([0,1,2] gives [0,1,2,0,1,2,0,1,2,0,1,2])
C3_TiledLabels ==
    LabelledFirstLevel =>
        LET F == Len(TemplateFaces(tmpl))
            labels == FaceLabels(F)
            got == sub.labels_levels[1]
        IN  /\ Len(got) = 4 * F
            /\ Len(got) = Len(sub.faces_levels[1])
            /\ \A i \in 1..F :
                  {j \in 1..Len(got) : got[j] = labels[i]} = {i, F + i, 2 * F + i, 3 * F + i}

C3_Witness == LabelledFirstLevel /\ tmpl = "fan" /\ sub.pc = "done"

CountTrue(allow) == Cardinality({i \in 1..Len(allow) : allow[i]})

\* C4: with a mask that selects k of F faces subdivide_faces_fn returns
\* (F - k) + 4k faces, for every k in 0..F
C4_MaskedFaceCount ==
    (fn.pc = "returned" /\ fn.allow # None) =>
        LET F == Len(fn.mesh.faces)
            k == CountTrue(fn.allow)
        IN  Len(fn.out) = (F - k) + 4 * k

\* 10 faces with the mask {0, 3, 7} give 19 faces
C4_Witness ==
    /\ fn.pc = "returned"
    /\ Len(fn.mesh.faces) = 10
    /\ fn.allow = MaskOf({0, 3, 7}, 10)
    /\ Len(fn.out) = 19

C4_WitnessEmptyMask ==
    /\ fn.pc = "returned"
    /\ fn.allow # None
    /\ CountTrue(fn.allow) = 0
    /\ fn.out = fn.mesh.faces

SameTopology(m1, m2) == Len(m1.verts) = Len(m2.verts) /\ m1.faces = m2.faces

\* C5 as stated: GSN.forward returns no level mesh made by applying a
\* precomputed face index to a topology it was not built for
C5_MismatchFailsLoudly ==
    gsn.pc # "idle" =>
        \A k \in 1..Len(gsn.level_outs) :
            Len(gsn.subdivided_faces) > 0 => SameTopology(gsn.inputs[k], sub.inputs[k])

Incident(v, edge_index) ==
    {e \in 1..Len(edge_index[1]) : edge_index[1][e] = v - 1 \/ edge_index[2][e] = v - 1}

\* C6: a vertex without incident edges gets the offset zero, its normalisation
\* factor is 0, and no factor is infinite
C6_IsolatedVertexZeroOffset ==
    layer.pc = "returned" =>
        /\ layer.result.ok
        /\ \A v \in 1..Len(layer.x) :
              /\ layer.result.deg_inv_sqrt[v] # Inf
              /\ Incident(v, layer.edge_index) = {} =>
                    /\ layer.result.out[v] = Zero3
                    /\ layer.result.deg_inv_sqrt[v] = 0

\* an isolated vertex next to a vertex that is moved
C6_Witness ==
    /\ layer.pc = "returned"
    /\ \E v \in 1..Len(layer.x) : Incident(v, layer.edge_index) = {}
    /\ \E v \in 1..Len(layer.x) : layer.result.out[v] # Zero3

\* C7 as stated: without allow_subdiv_faces the constructor completes for every
\* num_layers and caches num_layers face arrays and label entries
C7_DefaultMasksAnyDepth ==
    (sub.pc # "idle" /\ ~supplied) =>
        /\ sub.pc # "IndexError"
        /\ sub.pc = "done" =>
              /\ Len(sub.faces_levels) = num_layers
              /\ Len(sub.labels_levels) = num_layers
              /\ \A k \in 1..num_layers :
                    Len(sub.faces_levels[k]) = 4 * Len(sub.inputs[k].faces)

\* C8 as stated: a call of GSN.forward on the template's topology with n
\* precomputed levels never fails, returns one mesh per layer, and every level
\* from n on keeps its vertex and face buffers
C8_PassThroughPerLevel ==
    (gsn.pc # "idle" /\ gsn.source = tmpl) =>
        /\ gsn.pc \notin {"IndexError", "RuntimeError"}
        /\ gsn.pc = "done" => Len(gsn.level_outs) = num_layers
        /\ \A k \in 1..Len(gsn.level_outs) :
              IF k <= Len(gsn.subdivided_faces)
              THEN gsn.level_outs[k].faces = gsn.subdivided_faces[k]
              ELSE /\ gsn.level_outs[k].faces = gsn.inputs[k].faces
                   /\ \A b \in 1..Len(gsn.verts) :
                         Len(gsn.level_outs[k].verts[b]) = Len(gsn.inputs[k].verts)

\* C9: a second build on the same topology with other vertex positions ends
\* like the first and returns the same face arrays at every level
C9_SameTopologySameFaces ==
    sub2.pc # "idle" =>
        /\ sub2.pc = sub.pc
        /\ sub2.faces_levels = sub.faces_levels

C9_Witness ==
    /\ sub2.pc = "done"
    /\ Len(sub2.faces_levels) >= 2
    /\ allow_subdiv_faces[2] # None
    /\ sub2.inputs[1].verts # sub.inputs[1].verts
    /\ sub2.inputs[1].faces = sub.inputs[1].faces

\* C10 as stated: fine_tune and valid are never called in an epoch before
\* delay_epochs
C10_DelayRespected ==
    train.pc # "idle" =>
        \A c \in 1..Len(train.calls) :
            train.calls[c][1] \in {"fine_tune", "valid"} =>
                train.calls[c][2] >= train.delay_epochs

\* a call of subdivide_faces_fn with a mask has returned
MaskedCallReturned == fn.pc = "returned" /\ fn.allow # None

\* the faces of the mesh the mask leaves out, in their order
LeftOut(mesh, allow) == BoolIndex(mesh.faces, Not(allow))

\* C11 as stated: with a mask, the faces it leaves out stand verbatim and in
\* their order at the end of the output, behind all child faces
C11_Original_PassThroughLast ==
    MaskedCallReturned =>
        LET F == Len(fn.mesh.faces)
            k == CountTrue(fn.allow)
            V == Len(fn.mesh.verts)
        IN  /\ Len(fn.out) = (F - k) + 4 * k
            /\ SubSeq(fn.out, 4 * k + 1, Len(fn.out)) = LeftOut(fn.mesh, fn.allow)
            /\ \A j \in 1..(4 * k) : \E c \in 1..3 : fn.out[j][c] >= V

\* C11 amended: with a mask, the faces it leaves out stand verbatim and in
\* their order at the front of the output, before all child faces
C11_PassThroughFirst ==
    MaskedCallReturned =>
        LET F == Len(fn.mesh.faces)
            k == CountTrue(fn.allow)
            V == Len(fn.mesh.verts)
        IN  /\ Len(fn.out) = (F - k) + 4 * k
            /\ SubSeq(fn.out, 1, F - k) = LeftOut(fn.mesh, fn.allow)
            /\ \A j \in (F - k + 1)..Len(fn.out) : \E c \in 1..3 : fn.out[j][c] >= V

\* the tetrahedron with the mask {1, 2}: faces 0 and 3 in front of 8 child faces
C11_Witness ==
    /\ MaskedCallReturned
    /\ tmpl = "tetra"
    /\ fn.allow = MaskOf({1, 2}, 4)
    /\ Len(fn.out) = 10
    /\ fn.out[1] = fn.mesh.faces[1]
    /\ fn.out[2] = fn.mesh.faces[4]
    /\ fn.out[3] # fn.mesh.faces[2]

\* the parent (1-based, in the level's input) of every face a level returns:
\* a face carried over is its own parent, child j of the selected faces
\* descends from selected face j modulo their number
ParentIndex(allow, F, n_out) ==
    LET parents == Tensor(ParentsOf(allow, F))
        carried == IF allow = None THEN <<>> ELSE Tensor(Selected(Not(allow)))
        p == Len(carried)
        n == Len(parents)
    IN  Tensor([i \in 1..n_out |->
                   IF i <= p THEN carried[i] ELSE parents[((i - p - 1) % n) + 1]])

\* the label of the level-0 ancestor of every face of level k (k = 0: the
\* template's own faces)
RECURSIVE AncestorLabels(_, _)
AncestorLabels(s, k) ==
    IF k = 0 THEN FaceLabels(Len(s.inputs[1].faces))
    ELSE LET prev == AncestorLabels(s, k - 1)
             parent == ParentIndex(allow_subdiv_faces[k], Len(s.inputs[k].faces),
                                   Len(s.faces_levels[k]))
         IN  Tensor([i \in 1..Len(parent) |-> prev[parent[i]]])

\* a build that tracks labels has finished at least one level
LabelledBuild ==
    /\ sub.pc # "idle"
    /\ Len(sub.labels_levels) >= 1
    /\ sub.labels_levels[1] # None

\* C12 as stated: at every level and for every mask configuration the label
\* array is as long as the face array and holds, for every face, the label of
\* its level-0 ancestor
C12_LabelsAlignedWithFaces ==
    LabelledBuild =>
        \A k \in 1..Len(sub.labels_levels) :
            /\ Len(sub.labels_levels[k]) = Len(sub.faces_levels[k])
            /\ sub.labels_levels[k] = AncestorLabels(sub, k)

\* the directed pairs <<source, target>> of an edge index
DirectedPairs(edge_index) ==
    {<<edge_index[1][e], edge_index[2][e]>> : e \in 1..Len(edge_index[1])}

\* C13 as stated: the edge index GSN.forward hands to the layer of every level
\* holds both directed pairs of every undirected mesh edge, so every vertex with
\* a neighbour is the target of one edge per neighbour
C13_BothDirections ==
    gsn.pc # "idle" =>
        \A k \in 1..Len(gsn.edge_indices) :
            LET faces == IF k <= Len(gsn.inputs) THEN gsn.inputs[k].faces ELSE gsn.mesh.faces
                pairs == DirectedPairs(gsn.edge_indices[k])
            IN  \A e \in UndirectedEdges(faces) :
                    \A u \in e, v \in e :
                        u # v => /\ <<u, v>> \in pairs
                                 /\ <<v, u>> \in pairs
                                 /\ \E q \in pairs : q[2] = v

\* C14: at every level of the builder, with V vertices and E edges in the
\* level's input mesh, the next mesh keeps the V vertices and appends E, every
\* face index is below V + E, every index from V on in a child face is V + e
\* for an edge e of the child's own parent face, and the vertex at V + e is
\* the mean of the two endpoints of edge e
C14_IndexConsistency ==
    sub.pc # "idle" =>
        \A k \in 1..Len(sub.faces_levels) :
            LET in == sub.inputs[k]
                out == LevelOutput(sub, k)
                V == Len(in.verts)
                edges == in.edges_packed
                E == Len(edges)
                faces == sub.faces_levels[k]
                parent == ParentIndex(allow_subdiv_faces[k], Len(in.faces), Len(faces))
                p == PassThroughCount(allow_subdiv_faces[k], Len(in.faces))
            IN  /\ Len(out.verts) = V + E
                /\ out.faces = faces
                /\ \A v \in 1..V : out.verts[v] = in.verts[v]
                /\ \A i \in 1..Len(faces) : \A c \in 1..3 :
                      0 <= faces[i][c] /\ faces[i][c] <= V + E - 1
                /\ \A i \in (p + 1)..Len(faces) : \A c \in 1..3 :
                      faces[i][c] >= V =>
                         LET e == edges[faces[i][c] - V + 1]
                         IN  {e[1], e[2]} \subseteq FaceVertices(in.faces[parent[i]])
                /\ \A e \in 1..E :
                      VScale(2, out.verts[V + e]) =
                         VAdd(in.verts[edges[e][1] + 1], in.verts[edges[e][2] + 1])

\* two levels built, the second with a mask that selects some faces only, so
\* that faces carried over stand in front of child faces that use midpoints
C14_Witness ==
    /\ sub.pc = "done"
    /\ Len(sub.faces_levels) = 2
    /\ allow_subdiv_faces[2] # None
    /\ PassThroughCount(allow_subdiv_faces[2], Len(sub.inputs[2].faces)) > 0
    /\ \E i \in 1..Len(sub.faces_levels[2]) :
          sub.faces_levels[2][i][2] >= Len(sub.inputs[2].verts)

\* GSN.forward called on a batch of the template's topology with the face
\* index of all levels of the builder
AgreementCall ==
    /\ gsn.pc # "idle"
    /\ gsn.source = tmpl
    /\ gsn.subdivided_faces = sub.faces_levels

\* v is the mean of a and b, up to the rounding of the integer division
IsMean(v, a, b) ==
    \A c \in 1..3 : 2 * v[c] <= a[c] + b[c] /\ a[c] + b[c] <= 2 * v[c] + 1

\* C15: on a batch of the template's topology, whatever the offsets, every
\* level of GSN.forward starts from the topology the builder's level started
\* from and returns, for every batch element, as many vertices, the same faces
\* and the same edge list as the mesh the builder made at that level, with the
\* midpoint of edge e at index V + e
C15_BuilderNetworkAgree ==
    AgreementCall =>
        /\ gsn.pc \notin {"IndexError", "RuntimeError"}
        /\ \A k \in 1..Len(gsn.level_outs) :
              LET in == sub.inputs[k]
                  built == LevelOutput(sub, k)
                  V == Len(in.verts)
                  edges == in.edges_packed
                  faces == gsn.level_outs[k].faces
              IN  /\ gsn.inputs[k].faces = in.faces
                  /\ gsn.inputs[k].edges_packed = edges
                  /\ faces = built.faces
                  /\ \A b \in 1..Len(gsn.level_outs[k].verts) :
                        LET got == gsn.level_outs[k].verts[b]
                        IN  /\ Len(got) = Len(built.verts)
                            /\ EdgesPacked(Meshes(got, faces)) = EdgesPacked(built)
                            /\ \A e \in 1..Len(edges) :
                                  IsMean(got[V + e], got[edges[e][1] + 1],
                                         got[edges[e][2] + 1])

\* a batch of two meshes, two levels or more, vertices that the layers move,
\* and a first level built with a mask that selects some faces only
C15_Witness ==
    /\ AgreementCall
    /\ gsn.pc = "done"
    /\ num_layers >= 2
    /\ Len(gsn.verts) = 2
    /\ ~AllZero(gsn.offsets)
    /\ allow_subdiv_faces[1] # None
    /\ PassThroughCount(allow_subdiv_faces[1], Len(sub.inputs[1].faces)) > 0
    /\ CountTrue(allow_subdiv_faces[1]) > 0

\* the directed edges of a face array, in the direction each face runs them
DirectedEdges(faces) ==
    {<<faces[i][c], faces[i][(c % 3) + 1]>> : i \in 1..Len(faces), c \in 1..3}

\* closed and consistently oriented: no directed edge is run by two faces, and
\* every directed edge is run the other way round by another face
IsClosedOriented(faces) ==
    LET D == DirectedEdges(faces)
    IN  /\ Cardinality(D) = 3 * Len(faces)
        /\ \A d \in D : d[1] # d[2] /\ <<d[2], d[1]>> \in D

\* every vertex of the buffer is used by a face
AllReferenced(mesh) ==
    LET used == UNION {FaceVertices(mesh.faces[i]) : i \in 1..Len(mesh.faces)}
    IN  \A v \in 1..Len(mesh.verts) : (v - 1) \in used

\* C16 as stated: whenever the input mesh of a level of the builder is closed
\* and consistently oriented (and uses all its vertices), then for every mask,
\* none, all faces or a proper subset, the mesh built for the next
\* level is closed and consistently oriented and uses every vertex of its
\* buffer
C16_ClosedPreserved ==
    sub.pc # "idle" =>
        \A k \in 1..Len(sub.faces_levels) :
            (IsClosedOriented(sub.inputs[k].faces) /\ AllReferenced(sub.inputs[k])) =>
                /\ IsClosedOriented(LevelOutput(sub, k).faces)
                /\ AllReferenced(LevelOutput(sub, k))

====
